---------------------------- MODULE Spec2Model ----------------------------
(***************************************************************************)
(* Model of the LEAP denoising-filter framework                            *)
(* (src/src/leap_filter_sequence.py): the denoisingFilter base class, its  *)
(* seven concrete filters and the filterSequence aggregator.               *)
(*                                                                         *)
(* Numbers.  A float is the triple <<n, d, k>> standing for                *)
(*       (n / d) * (1.0e-16)^k        with d > 0, gcd(n, d) = 1,           *)
(* so that the literal 1.0e-16 of denoisingFilter.apply and quantities far *)
(* below it are exact values of the model.  d = 0 encodes the IEEE         *)
(* specials: <<0,0,0>> is NaN, <<1,0,0>> is +inf, <<-1,0,0>> is -inf.      *)
(* Arithmetic is exact (no rounding); a volume is a sequence of floats.    *)
(***************************************************************************)
EXTENDS Integers, Sequences, FiniteSets, TLC

VARIABLES
    filters,    \* filterSequence.filters
    beta,       \* filterSequence.beta
    flt,        \* a filter object held by the caller outside any sequence
    ctor,       \* the arguments flt was constructed with
    call        \* the most recent call: arguments, result, volume afterwards

vars == <<filters, beta, flt, ctor, call>>

(***************************************************************************)
(* Bounds of the model                                                     *)
(***************************************************************************)
NVox == 3
MaxFilters == 2
MaxMus == 2

(***************************************************************************)
(* Floats                                                                  *)
(***************************************************************************)
RECURSIVE GCD(_, _)
GCD(a, b) == IF b = 0 THEN a ELSE GCD(b, a % b)

IAbs(i) == IF i < 0 THEN -i ELSE i

ISgn(i) == IF i < 0 THEN -1 ELSE IF i = 0 THEN 0 ELSE 1

RECURSIVE IPow(_, _)
IPow(b, e) == IF e = 0 THEN 1 ELSE b * IPow(b, e - 1)

NaN == <<0, 0, 0>>
PInf == <<1, 0, 0>>
NInf == <<-1, 0, 0>>

\* F applied to the values of its operands, each computed once
Ap1(F(_), x) == CHOOSE r \in {F(a) : a \in {x}} : TRUE
Ap2(F(_, _), x, y) == CHOOSE r \in {F(a, b) : a \in {x}, b \in {y}} : TRUE

\* the float n/d * (1e-16)^k in canonical form
Flt(n, d, k) ==
    IF d = 0 THEN <<ISgn(n), 0, 0>>
    ELSE IF n = 0 THEN <<0, 1, 0>>
    ELSE LET g == GCD(IAbs(n), IAbs(d))
             s == IF d < 0 THEN -1 ELSE 1
         IN  <<s * (n \div g), s * (d \div g), k>>

Num(i) == Flt(i, 1, 0)
Zero == Num(0)
One == Num(1)

IsNaN0(x) == x[2] = 0 /\ x[1] = 0
IsInf0(x) == x[2] = 0 /\ x[1] # 0
FSgn0(x) == ISgn(x[1])
IsNaN(x) == Ap1(IsNaN0, x)
IsInf(x) == Ap1(IsInf0, x)
IsFinite(x) == x[2] # 0
FSgn(x) == Ap1(FSgn0, x)

\* -1, 0, 1 as a < b, a = b, a > b, for finite or infinite a, b (not NaN)
FCmp0(a, b) ==
    IF IsInf0(a) \/ IsInf0(b)
    THEN ISgn((IF IsInf0(a) THEN 2 * a[1] ELSE FSgn0(a))
              - (IF IsInf0(b) THEN 2 * b[1] ELSE FSgn0(b)))
    ELSE IF FSgn0(a) # FSgn0(b) THEN ISgn(FSgn0(a) - FSgn0(b))
    ELSE IF FSgn0(a) = 0 THEN 0
    ELSE IF a[3] # b[3] THEN (IF a[3] < b[3] THEN FSgn0(a) ELSE -FSgn0(a))
    ELSE ISgn(a[1] * b[2] - b[1] * a[2])

FLeq0(a, b) == ~IsNaN0(a) /\ ~IsNaN0(b) /\ FCmp0(a, b) <= 0
FLt0(a, b) == ~IsNaN0(a) /\ ~IsNaN0(b) /\ FCmp0(a, b) < 0
FEq0(a, b) == ~IsNaN0(a) /\ ~IsNaN0(b) /\ FCmp0(a, b) = 0
FLeq(x, y) == Ap2(FLeq0, x, y)
FLt(x, y) == Ap2(FLt0, x, y)
FGt(x, y) == Ap2(FLt0, y, x)
FEq(x, y) == Ap2(FEq0, x, y)

FNeg0(a) == <<-a[1], a[2], a[3]>>
FAbs0(a) == <<IAbs(a[1]), a[2], a[3]>>
FSign0(a) == IF IsNaN0(a) THEN NaN ELSE Num(FSgn0(a))
FNeg(x) == Ap1(FNeg0, x)
FAbs(x) == Ap1(FAbs0, x)
FSign(x) == Ap1(FSign0, x)

FMul0(a, b) ==
    IF IsNaN0(a) \/ IsNaN0(b) THEN NaN
    ELSE IF IsInf0(a) \/ IsInf0(b)
         THEN (IF FSgn0(a) = 0 \/ FSgn0(b) = 0 THEN NaN ELSE <<FSgn0(a) * FSgn0(b), 0, 0>>)
    ELSE IF FSgn0(a) = 0 \/ FSgn0(b) = 0 THEN <<0, 1, 0>>
    ELSE LET g1 == GCD(IAbs(a[1]), b[2])
             g2 == GCD(IAbs(b[1]), a[2])
         IN  Flt((a[1] \div g1) * (b[1] \div g2), (a[2] \div g2) * (b[2] \div g1),
                 a[3] + b[3])

FMul(x, y) == Ap2(FMul0, x, y)

\* an addend sixteen or more orders of magnitude below the other is absorbed
FAdd0(a, b) ==
    IF IsNaN0(a) \/ IsNaN0(b) THEN NaN
    ELSE IF IsInf0(a) /\ IsInf0(b) THEN (IF a = b THEN a ELSE NaN)
    ELSE IF IsInf0(a) THEN a
    ELSE IF IsInf0(b) THEN b
    ELSE IF FSgn0(a) = 0 THEN b
    ELSE IF FSgn0(b) = 0 THEN a
    ELSE IF a[3] = b[3]
         THEN LET g == GCD(a[2], b[2])
              IN  Flt(a[1] * (b[2] \div g) + b[1] * (a[2] \div g),
                      (a[2] \div g) * b[2], a[3])
    ELSE IF a[3] < b[3] THEN a ELSE b

FAdd(x, y) == Ap2(FAdd0, x, y)

FSub0(a, b) == FAdd0(a, FNeg0(b))
FSub(x, y) == Ap2(FSub0, x, y)

FInv0(a) ==
    IF IsNaN0(a) THEN NaN
    ELSE IF IsInf0(a) THEN Zero
    ELSE IF FSgn0(a) = 0 THEN PInf
    ELSE Flt(a[2], a[1], -a[3])

FDiv0(a, b) ==
    IF a[2] # 0 /\ b[2] # 0 /\ FSgn0(a) = 0 /\ FSgn0(b) = 0 THEN NaN
    ELSE IF IsInf0(a) /\ IsInf0(b) THEN NaN
    ELSE FMul0(a, FInv0(b))

FDiv(x, y) == Ap2(FDiv0, x, y)

\* abs(a) ** q for an integral float q (its numerator is the exponent), as numpy
\* computes it
FPowAbs0(a, q) ==
    IF q[1] = 0 THEN One
    ELSE IF IsNaN0(a) THEN NaN
    ELSE IF IsInf0(a) THEN (IF q[1] > 0 THEN PInf ELSE Zero)
    ELSE IF FSgn0(a) = 0 THEN (IF q[1] > 0 THEN Zero ELSE PInf)
    ELSE IF q[1] > 0 THEN Flt(IPow(IAbs(a[1]), q[1]), IPow(a[2], q[1]), a[3] * q[1])
    ELSE Flt(IPow(a[2], -q[1]), IPow(IAbs(a[1]), -q[1]), a[3] * q[1])

FPowAbs(x, q) == Ap2(FPowAbs0, x, q)

\* Python's max(a, b) and min(a, b): b when it compares beyond a, else a
FMax0(a, b) == IF FLt0(a, b) THEN b ELSE a
FMin0(a, b) == IF FLt0(b, a) THEN b ELSE a
FMax(x, y) == Ap2(FMax0, x, y)
FMin(x, y) == Ap2(FMin0, x, y)

(***************************************************************************)
(* Volumes and the numeric engine (leapct, an object of tomographicModels) *)
(***************************************************************************)
Idx == 1..NVox

VZip(F(_, _), a, b) == [i \in DOMAIN a |-> F(a[i], b[i])]
VAdd(a, b) == VZip(FAdd, a, b)
VSub(a, b) == VZip(FSub, a, b)
VMul(a, b) == VZip(FMul, a, b)
VScale(s, a) == [i \in DOMAIN a |-> FMul(s, a[i])]
VPowAbs(a, q) == [i \in DOMAIN a |-> FPowAbs(a[i], q)]
VConst(a, x) == [i \in DOMAIN a |-> x]

RECURSIVE FSumTo(_, _)
FSumTo(a, n) == IF n = 0 THEN Zero ELSE FAdd(FSumTo(a, n - 1), a[n])

leapct_copyData(a) == a
leapct_sum(a) == FSumTo(a, Len(a))
leapct_abs(a) == [i \in DOMAIN a |-> FAbs(a[i])]
leapct_sign(a) == [i \in DOMAIN a |-> FSign(a[i])]
leapct_innerProd(a, b, c) == leapct_sum(VMul(VMul(a, b), c))
leapct_minimum(a, b) ==
    [i \in DOMAIN a |-> IF IsNaN(a[i]) \/ IsNaN(b[i]) THEN NaN ELSE FMin(a[i], b[i])]

\* neighbours of voxel i: the edge voxel repeated, or the ring closed
Clamp(a, i) == a[IF i < 1 THEN 1 ELSE IF i > Len(a) THEN Len(a) ELSE i]
Ring(a, i) == a[((i - 1 + Len(a)) % Len(a)) + 1]
Third == Flt(1, 3, 0)
Quarter == Flt(1, 4, 0)
Median3(x, y, z) == FMax(FMin(x, y), FMin(FMax(x, y), z))

\* the native kernels work in place on the array they are handed and return it
leapct_BlurFilter(a, FWHM) ==
    [i \in DOMAIN a |->
        FMul(Quarter, FAdd(FAdd(Clamp(a, i - 1), FMul(Num(2), a[i])), Clamp(a, i + 1)))]

leapct_BilateralFilter(a, spatialFWHM, intensityFWHM, scale) ==
    [i \in DOMAIN a |->
        LET near(j) == FLeq(FAbs(FSub(Clamp(a, j), a[i])), intensityFWHM)
            l == IF near(i - 1) THEN Clamp(a, i - 1) ELSE a[i]
            r == IF near(i + 1) THEN Clamp(a, i + 1) ELSE a[i]
        IN  FMul(Third, FAdd(FAdd(l, a[i]), r))]

leapct_MedianFilter(a, threshold, windowSize) ==
    [i \in DOMAIN a |->
        LET m == Median3(Clamp(a, i - 1), a[i], Clamp(a, i + 1))
        IN  IF FLeq(threshold, FAbs(FSub(a[i], m))) THEN m ELSE a[i]]

leapct_AzimuthalBlur(a, FWHM) ==
    [i \in DOMAIN a |-> FMul(Third, FAdd(FAdd(Ring(a, i - 1), a[i]), Ring(a, i + 1)))]

leapct_diffuse(a, delta, numIter, p) ==
    [i \in DOMAIN a |->
        FAdd(a[i], FMul(Third, FAdd(FSub(Clamp(a, i - 1), a[i]), FSub(Clamp(a, i + 1), a[i]))))]

leapct_TVcost(a, delta, weight, p) ==
    FMul(weight, leapct_sum([i \in DOMAIN a |-> FAbs(FSub(Clamp(a, i + 1), a[i]))]))

leapct_TVgradient(a, delta, weight, p) ==
    [i \in DOMAIN a |->
        FMul(weight, FSub(FSign(FSub(a[i], Clamp(a, i - 1))), FSign(FSub(Clamp(a, i + 1), a[i]))))]

leapct_TVquadForm(a, d, delta, weight, p) ==
    FMul(weight, leapct_sum([i \in DOMAIN a |->
        LET s == FSub(Clamp(d, i + 1), d[i]) IN FMul(s, s)]))

(***************************************************************************)
(* What a call hands back: a float, a volume, None, or a raised exception  *)
(***************************************************************************)
RVal(x) == [kind |-> "val", val |-> x, vol |-> <<>>]
RVol(v) == [kind |-> "vol", val |-> Zero, vol |-> v]
RNone == [kind |-> "none", val |-> Zero, vol |-> <<>>]
RErr == [kind |-> "err", val |-> Zero, vol |-> <<>>]

\* None where a volume is optional (f_0)
None == <<>>


(***************************************************************************)
(* Filter objects.  One record shape for all classes; a field a class does *)
(* not set keeps the placeholder of denoisingFilter_init.                  *)
(***************************************************************************)
denoisingFilter_init ==
    [kind |-> "denoisingFilter", weight |-> One, isDifferentiable |-> FALSE,
     FWHM |-> Zero, spatialFWHM |-> Zero, intensityFWHM |-> Zero, scale |-> Zero,
     threshold |-> Zero, windowSize |-> 0, delta |-> Zero, p |-> Zero,
     f_0 |-> None, mus |-> <<>>, GemanParam |-> Zero]

BlurFilter_init(FWHM) ==
    [denoisingFilter_init EXCEPT !.kind = "BlurFilter", !.FWHM = FWHM,
                                 !.isDifferentiable = FALSE]

BilateralFilter_init(spatialFWHM, intensityFWHM, scale) ==
    [denoisingFilter_init EXCEPT !.kind = "BilateralFilter",
                                 !.spatialFWHM = spatialFWHM,
                                 !.intensityFWHM = intensityFWHM,
                                 !.scale = scale, !.isDifferentiable = FALSE]

MedianFilter_init(threshold, windowSize) ==
    [denoisingFilter_init EXCEPT !.kind = "MedianFilter", !.threshold = threshold,
                                 !.windowSize = windowSize, !.isDifferentiable = FALSE]

TV_pMin == Flt(1, 100, 0)

TV_init(delta, p, weight, f_0) ==
    [denoisingFilter_init EXCEPT !.kind = "TV", !.delta = delta,
                                 !.p = FMax(TV_pMin, p), !.weight = weight,
                                 !.isDifferentiable = TRUE, !.f_0 = f_0]

LpNorm_init(p, weight, f_0) ==
    [denoisingFilter_init EXCEPT !.kind = "LpNorm", !.p = FMax(Zero, p),
                                 !.weight = weight, !.f_0 = f_0,
                                 !.isDifferentiable = TRUE]

azimuthalFilter_init(FWHM, p, weight) ==
    [denoisingFilter_init EXCEPT !.kind = "azimuthalFilter", !.FWHM = FWHM,
                                 !.p = p, !.weight = weight,
                                 !.isDifferentiable = TRUE]

(***************************************************************************)
(* histogramSparsity.__init__                                              *)
(***************************************************************************)
SeqSet(s) == {s[i] : i \in DOMAIN s}

\* the least float of a nonempty finite set
FLeast(S) == CHOOSE x \in S : \A y \in S : FLeq(x, y)

\* np.unique: the distinct values in ascending order
RECURSIVE AscendingOf(_)
AscendingOf(S) ==
    IF S = {} THEN <<>> ELSE <<FLeast(S)>> \o AscendingOf(S \ {FLeast(S)})

np_unique(s) == AscendingOf(SeqSet(s))

\* np.sort: ascending, by insertion
RECURSIVE np_sort(_)
np_sort(s) ==
    IF s = <<>> THEN <<>>
    ELSE LET rest == np_sort(Tail(s))
             k == Cardinality({i \in DOMAIN rest : FLt(rest[i], Head(s))})
         IN  SubSeq(rest, 1, k) \o <<Head(s)>> \o SubSeq(rest, k + 1, Len(rest))

\* hist_musArg without the insertion of 0.0
hist_musArg_noZero(mus) == mus

\* lines 321-322: the list with 0.0 appended when no entry equals 0.0
hist_musArg(mus) ==
    IF \E i \in DOMAIN mus : FEq(mus[i], Zero) THEN mus ELSE Append(mus, Zero)

\* line 324
hist_mus(mus) == np_sort(np_unique(hist_musArg(mus)))

\* lines 327-329: the running minimum over adjacent gaps, l = 1 .. size-1
RECURSIVE hist_minDist(_, _)
hist_minDist(m, l) ==
    IF l = 0 THEN FAbs(FSub(m[2], m[1]))
    ELSE FMin(hist_minDist(m, l - 1), FAbs(FSub(m[l + 1], m[l])))

\* line 326 tests the size of the argument list, line 327 indexes self.mus[1]
histogramSparsity_raises(mus) ==
    Len(hist_musArg(mus)) > 1 /\ Len(hist_mus(mus)) < 2

GemanDefault == Flt(1, 100000, 0)

histogramSparsity_init(mus, weight) ==
    LET m == hist_mus(mus)
        g == IF Len(hist_musArg(mus)) > 1
             THEN LET minDist == hist_minDist(m, Len(m) - 1)
                  IN  FMul(FMul(Quarter, minDist), minDist)
             ELSE GemanDefault
    IN  [denoisingFilter_init EXCEPT !.kind = "histogramSparsity", !.weight = weight,
                                     !.isDifferentiable = TRUE, !.mus = m,
                                     !.GemanParam = g]


(***************************************************************************)
(* cost, gradient, quadForm of each class                                  *)
(***************************************************************************)
\* the base-class bodies are `pass`: the call returns None
denoisingFilter_cost(F, f) == RNone
denoisingFilter_gradient(F, f) == RNone
denoisingFilter_quadForm(F, f, d) == RNone

TV_centered(F, f) == IF F.f_0 # None THEN VSub(f, F.f_0) ELSE f
TV_cost(F, f) == RVal(leapct_TVcost(TV_centered(F, f), F.delta, F.weight, F.p))
TV_gradient(F, f) == RVol(leapct_TVgradient(TV_centered(F, f), F.delta, F.weight, F.p))
TV_quadForm(F, f, d) ==
    RVal(leapct_TVquadForm(TV_centered(F, f), d, F.delta, F.weight, F.p))

LpNorm_cost(F, f) ==
    IF F.f_0 # None
    THEN RVal(FMul(F.weight, leapct_sum(VPowAbs(leapct_abs(VSub(f, F.f_0)), F.p))))
    ELSE RVal(FMul(F.weight, leapct_sum(VPowAbs(leapct_abs(f), F.p))))

LpNorm_gradient(F, f) ==
    LET Df0 == leapct_copyData(f)
        Df == IF F.f_0 # None THEN VSub(Df0, F.f_0) ELSE Df0
    IN  RVol(VMul(VScale(FMul(F.weight, F.p), leapct_sign(Df)),
                  VPowAbs(leapct_abs(Df), FSub(F.p, One))))

\* ZeroGuardedPow without the substitution at the zero positions
UnguardedPow(x, q) == VPowAbs(leapct_abs(x), q)

\* f_copy[ind] = 1.0 ; f_copy = abs(f_copy)**(p-2.0) ; f_copy[ind] = 0.0
ZeroGuardedPow(x, q) ==
    LET ind == [i \in DOMAIN x |-> FEq(x[i], Zero)]
        subst == [i \in DOMAIN x |-> IF ind[i] THEN One ELSE x[i]]
        pw == VPowAbs(leapct_abs(subst), q)
    IN  [i \in DOMAIN x |-> IF ind[i] THEN Zero ELSE pw[i]]

LpNorm_quadForm(F, f, d) ==
    IF F.f_0 # None
    THEN LET f_copy == VSub(leapct_copyData(f), F.f_0)
         IN  RVal(FMul(FMul(F.weight, F.p),
                       leapct_innerProd(ZeroGuardedPow(f_copy, FSub(F.p, Num(2))), d, d)))
    ELSE LET f_copy == leapct_copyData(f)
         IN  RVal(FMul(FMul(F.weight, F.p),
                       leapct_innerProd(ZeroGuardedPow(f_copy, FSub(F.p, Num(2))), d, d)))

Geman0(F, x) == FDiv(FMul(x, x), FAdd(FMul(x, x), F.GemanParam))

Geman1(F, x) ==
    FDiv(FMul(FMul(Num(2), F.GemanParam), x),
         FMul(FAdd(FMul(x, x), F.GemanParam), FAdd(FMul(x, x), F.GemanParam)))

Geman1_over_x(F, x) ==
    FDiv(FMul(Num(2), F.GemanParam),
         FMul(FAdd(FMul(x, x), F.GemanParam), FAdd(FMul(x, x), F.GemanParam)))

\* curTerm after l passes of the loop of lines 346-347
RECURSIVE hist_costTerm(_, _, _)
hist_costTerm(F, f, l) ==
    IF l = 0 THEN VConst(f, One)
    ELSE VMul(hist_costTerm(F, f, l - 1),
              [i \in DOMAIN f |-> Geman0(F, FSub(f[i], F.mus[l]))])

histogramSparsity_cost(F, f) ==
    RVal(FMul(F.weight, leapct_sum(hist_costTerm(F, f, Len(F.mus)))))

\* curTerm of target l_1 after l_2 passes of the inner loop of lines 356-360
RECURSIVE hist_gradTerm(_, _, _, _)
hist_gradTerm(F, f, l_1, l_2) ==
    IF l_2 = 0 THEN VConst(f, One)
    ELSE VMul(hist_gradTerm(F, f, l_1, l_2 - 1),
              [i \in DOMAIN f |->
                  IF l_1 = l_2 THEN Geman1(F, FSub(f[i], F.mus[l_1]))
                  ELSE Geman0(F, FSub(f[i], F.mus[l_2]))])

\* Sp after l_1 passes of the outer loop: Sp += curTerm ; Sp *= self.weight
RECURSIVE hist_gradSp(_, _, _)
hist_gradSp(F, f, l_1) ==
    IF l_1 = 0 THEN VConst(f, Zero)
    ELSE VScale(F.weight,
                VAdd(hist_gradSp(F, f, l_1 - 1), hist_gradTerm(F, f, l_1, Len(F.mus))))

histogramSparsity_gradient(F, f) == RVol(hist_gradSp(F, f, Len(F.mus)))

\* minDiff after the passes l = 1 .. n of the loop of lines 368-369
RECURSIVE hist_minDiff(_, _, _)
hist_minDiff(F, f, n) ==
    IF n = 0 THEN leapct_abs(VSub(leapct_copyData(f), VConst(f, F.mus[1])))
    ELSE LET minDiff == hist_minDiff(F, f, n - 1)
         IN  leapct_minimum(minDiff,
                            leapct_abs(VSub(minDiff, VConst(f, F.mus[n + 1]))))

histogramSparsity_quadForm(F, f, d) ==
    LET minDiff == hist_minDiff(F, f, Len(F.mus) - 1)
    IN  RVal(FMul(F.weight,
                  leapct_innerProd([i \in DOMAIN f |-> Geman1_over_x(F, minDiff[i])], d, d)))

\* Bf = f - AzimuthalBlur(f)
azimuthal_highPass(F, f) == VSub(f, leapct_AzimuthalBlur(leapct_copyData(f), F.FWHM))

\* line 408 reads the name p, which is bound neither in the method nor in the
\* module: the call raises NameError once Bf is computed
azimuthalFilter_cost(F, f) == RErr

azimuthalFilter_gradient(F, f) ==
    LET Bf0 == azimuthal_highPass(F, f)
        Bf == VMul(VScale(F.p, leapct_sign(Bf0)),
                   VPowAbs(leapct_abs(Bf0), FSub(F.p, One)))
        BBf == leapct_AzimuthalBlur(leapct_copyData(Bf), F.FWHM)
    IN  RVol(VScale(F.weight, VSub(Bf, BBf)))

azimuthalFilter_quadForm(F, f, d) ==
    LET Bf == azimuthal_highPass(F, f)
        Bd == azimuthal_highPass(F, d)
    IN  RVal(FMul(FMul(F.weight, F.p),
                  leapct_innerProd(ZeroGuardedPow(Bf, FSub(F.p, Num(2))), Bd, Bd)))

\* method resolution: the class's own method, else the inherited one
cost(F, f) ==
    CASE F.kind = "TV" -> TV_cost(F, f)
      [] F.kind = "LpNorm" -> LpNorm_cost(F, f)
      [] F.kind = "histogramSparsity" -> histogramSparsity_cost(F, f)
      [] F.kind = "azimuthalFilter" -> azimuthalFilter_cost(F, f)
      [] OTHER -> denoisingFilter_cost(F, f)

gradient(F, f) ==
    CASE F.kind = "TV" -> TV_gradient(F, f)
      [] F.kind = "LpNorm" -> LpNorm_gradient(F, f)
      [] F.kind = "histogramSparsity" -> histogramSparsity_gradient(F, f)
      [] F.kind = "azimuthalFilter" -> azimuthalFilter_gradient(F, f)
      [] OTHER -> denoisingFilter_gradient(F, f)

quadForm(F, f, d) ==
    CASE F.kind = "TV" -> TV_quadForm(F, f, d)
      [] F.kind = "LpNorm" -> LpNorm_quadForm(F, f, d)
      [] F.kind = "histogramSparsity" -> histogramSparsity_quadForm(F, f, d)
      [] F.kind = "azimuthalFilter" -> azimuthalFilter_quadForm(F, f, d)
      [] OTHER -> denoisingFilter_quadForm(F, f, d)


(***************************************************************************)
(* apply of each class.  The result pairs what the call returns (ret) with *)
(* the contents of the caller's array once it has returned (f).            *)
(***************************************************************************)
EPS16 == Flt(1, 1, 1)

\* an in-place kernel: the caller's array holds what the call returns
InPlace(g) == Ap1(LAMBDA a : [ret |-> RVol(a), f |-> a], g)

\* denoisingFilter_step with the step taken along d instead of against it
denoisingFilter_step_ascent(f, d, num, denom) ==
    IF FLeq(denom, EPS16) THEN [ret |-> RVol(f), f |-> f]
    ELSE InPlace(VAdd(f, VScale(FDiv(num, denom), d)))

\* lines 87-91: the guard on denom, then f -= stepSize*d
denoisingFilter_step(f, d, num, denom) ==
    IF FLeq(denom, EPS16) THEN [ret |-> RVol(f), f |-> f]
    ELSE InPlace(VSub(f, VScale(FDiv(num, denom), d)))

\* lines 84-86: num = sum(d**2), denom = quadForm(f, d)
denoisingFilter_descend(F, f, d) ==
    IF d.kind # "vol" THEN [ret |-> RErr, f |-> f]
    ELSE Ap2(LAMBDA num, denom : denoisingFilter_step(f, d.vol, num, denom),
             leapct_sum(VMul(d.vol, d.vol)), quadForm(F, f, d.vol).val)

denoisingFilter_apply(F, f) ==
    IF F.isDifferentiable
    THEN Ap1(LAMBDA d : denoisingFilter_descend(F, f, d), gradient(F, f))
    ELSE [ret |-> RNone, f |-> f]

BlurFilter_apply(F, f) == InPlace(leapct_BlurFilter(f, F.FWHM))

BilateralFilter_apply(F, f) ==
    InPlace(leapct_BilateralFilter(f, F.spatialFWHM, F.intensityFWHM, F.scale))

MedianFilter_apply(F, f) == InPlace(leapct_MedianFilter(f, F.threshold, F.windowSize))

\* with a prior, diffuse works on the temporary f - f_0, which is then dropped
TV_apply(F, f) ==
    IF F.f_0 # None
    THEN Ap1(LAMBDA tmp : InPlace(VAdd(f, F.f_0)),
             leapct_diffuse(VSub(f, F.f_0), F.delta, 1, F.p))
    ELSE InPlace(leapct_diffuse(f, F.delta, 1, F.p))

\* f[:] -= f_0 ; super().apply(f) ; f[:] += f_0
LpNorm_apply(F, f) ==
    IF F.f_0 # None
    THEN Ap1(LAMBDA r : IF r.ret.kind = "vol" THEN InPlace(VAdd(r.f, F.f_0))
                        ELSE [ret |-> r.ret, f |-> r.f],
             denoisingFilter_apply(F, VSub(f, F.f_0)))
    ELSE denoisingFilter_apply(F, f)

apply(F, f) ==
    CASE F.kind = "BlurFilter" -> BlurFilter_apply(F, f)
      [] F.kind = "BilateralFilter" -> BilateralFilter_apply(F, f)
      [] F.kind = "MedianFilter" -> MedianFilter_apply(F, f)
      [] F.kind = "TV" -> TV_apply(F, f)
      [] F.kind = "LpNorm" -> LpNorm_apply(F, f)
      [] OTHER -> denoisingFilter_apply(F, f)

(***************************************************************************)
(* filterSequence.  Each loop is the state after n passes: the accumulator,*)
(* whether a pass raised, and the list of filters evaluated so far.        *)
(***************************************************************************)
Participates(F) == F.isDifferentiable = TRUE /\ FGt(F.weight, Zero)

\* one pass of the loop of lines 475-477
filterSequence_costPass(s, F, f, n) ==
    IF s.raised \/ ~Participates(F) THEN s
    ELSE Ap1(LAMBDA c : [retVal |-> IF c.kind = "val" THEN FAdd(s.retVal, c.val)
                                    ELSE s.retVal,
                         raised |-> c.kind # "val",
                         log |-> Append(s.log, n)],
             cost(F, f))

RECURSIVE filterSequence_costLoop(_, _, _)
filterSequence_costLoop(fs, f, n) ==
    IF n = 0 THEN [retVal |-> Zero, raised |-> FALSE, log |-> <<>>]
    ELSE Ap1(LAMBDA s : filterSequence_costPass(s, fs[n], f, n),
             filterSequence_costLoop(fs, f, n - 1))

filterSequence_cost(fs, b, f) ==
    IF FGt(b, Zero)
    THEN Ap1(LAMBDA s : [ret |-> IF s.raised THEN RErr ELSE RVal(FMul(s.retVal, b)),
                         log |-> s.log],
             filterSequence_costLoop(fs, f, Len(fs)))
    ELSE [ret |-> RVal(Zero), log |-> <<>>]

\* one pass of the loop of lines 486-488
filterSequence_gradientPass(s, F, f, n) ==
    IF s.raised \/ ~Participates(F) THEN s
    ELSE Ap1(LAMBDA g : [D |-> IF g.kind = "vol" THEN VAdd(s.D, g.vol) ELSE s.D,
                         raised |-> g.kind # "vol",
                         log |-> Append(s.log, n)],
             gradient(F, f))

RECURSIVE filterSequence_gradientLoop(_, _, _)
filterSequence_gradientLoop(fs, f, n) ==
    IF n = 0 THEN [D |-> VConst(leapct_copyData(f), Zero), raised |-> FALSE, log |-> <<>>]
    ELSE Ap1(LAMBDA s : filterSequence_gradientPass(s, fs[n], f, n),
             filterSequence_gradientLoop(fs, f, n - 1))

\* filterSequence_gradient allocating its result without self.filters[0]: a
\* zero volume on an empty list
filterSequence_gradient_zeroOnEmpty(fs, b, f) ==
    IF FGt(b, Zero)
    THEN Ap1(LAMBDA s : [ret |-> IF s.raised THEN RErr ELSE RVol(VScale(b, s.D)),
                         log |-> s.log],
             filterSequence_gradientLoop(fs, f, Len(fs)))
    ELSE [ret |-> RVol(VConst(leapct_copyData(f), Zero)), log |-> <<>>]

\* line 483 reads self.filters[0] before the test on beta: IndexError on an empty list
filterSequence_gradient(fs, b, f) ==
    IF fs = <<>> THEN [ret |-> RErr, log |-> <<>>]
    ELSE IF FGt(b, Zero)
    THEN Ap1(LAMBDA s : [ret |-> IF s.raised THEN RErr ELSE RVol(VScale(b, s.D)),
                         log |-> s.log],
             filterSequence_gradientLoop(fs, f, Len(fs)))
    ELSE [ret |-> RVol(VConst(leapct_copyData(f), Zero)), log |-> <<>>]

\* one pass of the loop of lines 496-498
filterSequence_quadFormPass(s, F, f, d, n) ==
    IF s.raised \/ ~Participates(F) THEN s
    ELSE Ap1(LAMBDA q : [retVal |-> IF q.kind = "val" THEN FAdd(s.retVal, q.val)
                                    ELSE s.retVal,
                         raised |-> q.kind # "val",
                         log |-> Append(s.log, n)],
             quadForm(F, f, d))

RECURSIVE filterSequence_quadFormLoop(_, _, _, _)
filterSequence_quadFormLoop(fs, f, d, n) ==
    IF n = 0 THEN [retVal |-> Zero, raised |-> FALSE, log |-> <<>>]
    ELSE Ap1(LAMBDA s : filterSequence_quadFormPass(s, fs[n], f, d, n),
             filterSequence_quadFormLoop(fs, f, d, n - 1))

filterSequence_quadForm(fs, b, f, d) ==
    IF FGt(b, Zero)
    THEN Ap1(LAMBDA s : [ret |-> IF s.raised THEN RErr ELSE RVal(FMul(s.retVal, b)),
                         log |-> s.log],
             filterSequence_quadFormLoop(fs, f, d, Len(fs)))
    ELSE [ret |-> RVal(Zero), log |-> <<>>]

\* the caller's array after n passes; what each filters[n].apply returns is dropped
RECURSIVE filterSequence_applyLoop(_, _, _)
filterSequence_applyLoop(fs, f, n) ==
    IF n = 0 THEN [f |-> f, log |-> <<>>]
    ELSE Ap1(LAMBDA s : [f |-> apply(fs[n], s.f).f, log |-> Append(s.log, n)],
             filterSequence_applyLoop(fs, f, n - 1))

\* filterSequence_apply gated on beta, the way cost, gradient and quadForm are
filterSequence_apply_gated(fs, b, f) ==
    IF FGt(b, Zero)
    THEN Ap1(LAMBDA s : [ret |-> RVol(s.f), f |-> s.f, log |-> s.log],
             filterSequence_applyLoop(fs, f, Len(fs)))
    ELSE [ret |-> RVol(f), f |-> f, log |-> <<>>]

filterSequence_apply(fs, b, f) ==
    Ap1(LAMBDA s : [ret |-> RVol(s.f), f |-> s.f, log |-> s.log],
        filterSequence_applyLoop(fs, f, Len(fs)))


(***************************************************************************)
(* Inputs of the model                                                     *)
(***************************************************************************)
Half == Flt(1, 2, 0)

InVals == {Num(-1), Zero, One, Num(2)}
Vols == [Idx -> InVals]
Dirs == {[i \in Idx |-> One],
         [i \in Idx |-> IF i = 1 THEN One ELSE Zero],
         [i \in Idx |-> IF i = 1 THEN Num(-1) ELSE Num(2)]}
Priors == {None, [i \in Idx |-> IF i = 1 THEN One ELSE Zero]}
Weights == {Num(-1), Zero, Half, EPS16}
Ps == {Num(-1), Zero, One, Num(2)}
MuVals == {Zero, One, Num(2)}
MusLists == UNION {[1..n -> MuVals] : n \in 1..MaxMus}
Betas == {Num(-1), Zero, Num(2)}

\* the filters a caller appends to a sequence
SeqFilters ==
    {BlurFilter_init(Num(2)),
     BilateralFilter_init(Num(2), One, One),
     MedianFilter_init(Zero, 3),
     TV_init(Zero, Flt(6, 5, 0), One, None),
     TV_init(Zero, Flt(6, 5, 0), One, [i \in Idx |-> One]),
     LpNorm_init(Num(2), Half, None),
     LpNorm_init(One, Zero, None),
     LpNorm_init(Num(2), Num(-1), None),
     histogramSparsity_init(<<Num(2)>>, One),
     azimuthalFilter_init(Num(2), Num(2), One)}
SeqVols == [Idx -> {Num(-1), Num(2)}]

NoFilter == [denoisingFilter_init EXCEPT !.kind = "none"]
NoCtor == [p |-> Zero, weight |-> Zero, mus |-> <<>>]
NoCall ==
    [op |-> "none", on |-> "none", fin |-> <<>>, d |-> <<>>,
     ret |-> RNone, f |-> <<>>, dout |-> <<>>, log |-> <<>>]

\* the exact rationals of a call stay within 32-bit integers
\* when the Geman-McClure scale is 1 (targets 0 and 2) and the norm order of an
\* azimuthalFilter is not negative
InRange(F) ==
    /\ F.kind = "histogramSparsity" => F.GemanParam = One
    /\ F.kind = "azimuthalFilter" => FLeq(Zero, F.p)

\* quadForm alone also stays within them when the scale is 1/4 (targets 0
\* and 1, or 0, 1 and 2)
InRangeQuadForm(F) ==
    /\ F.kind = "histogramSparsity" => F.GemanParam \in {One, Quarter}
    /\ F.kind = "azimuthalFilter" => FLeq(Zero, F.p)

\* and, in a chain of applies, when the volume handed to a histogramSparsity
\* is the caller's own (the filter is the first of the list) and a chain with
\* a generic gradient step (histogramSparsity, azimuthalFilter) has at most
\* two stages
ChainInRange(fs) ==
    \A n \in DOMAIN fs :
        /\ fs[n].kind = "histogramSparsity" => n = 1
        /\ fs[n].kind \in {"histogramSparsity", "azimuthalFilter"} => Len(fs) <= 2

(***************************************************************************)
(* The caller constructs a filter                                          *)
(***************************************************************************)
Idle == call = NoCall

\* no object yet: the caller is about to construct one
Fresh == Idle /\ flt.kind = "none"

Constructed(F, p, weight, mus) ==
    /\ flt' = F
    /\ ctor' = [p |-> p, weight |-> weight, mus |-> mus]
    /\ call' = [NoCall EXCEPT !.op = "__init__", !.on = "filter"]
    /\ UNCHANGED <<filters, beta>>

NewDenoisingFilter == Fresh /\ Constructed(denoisingFilter_init, Zero, One, <<>>)

NewBlurFilter == Fresh /\ Constructed(BlurFilter_init(Num(2)), Zero, One, <<>>)

NewBilateralFilter ==
    Fresh /\ Constructed(BilateralFilter_init(Num(2), One, One), Zero, One, <<>>)

NewMedianFilter == Fresh /\ Constructed(MedianFilter_init(Zero, 3), Zero, One, <<>>)

NewTV ==
    /\ Fresh
    /\ \E p \in Ps, weight \in Weights, f_0 \in Priors :
          Constructed(TV_init(Zero, p, weight, f_0), p, weight, <<>>)

NewLpNorm ==
    /\ Fresh
    /\ \E p \in Ps, weight \in Weights, f_0 \in Priors :
          Constructed(LpNorm_init(p, weight, f_0), p, weight, <<>>)

\* when the constructor raises, the caller gets no object
NewHistogramSparsity ==
    /\ Fresh
    /\ \E mus \in MusLists, weight \in Weights :
          IF histogramSparsity_raises(mus)
          THEN /\ flt' = NoFilter
               /\ ctor' = [p |-> Zero, weight |-> weight, mus |-> mus]
               /\ call' = [NoCall EXCEPT !.op = "__init__", !.on = "filter", !.ret = RErr]
               /\ UNCHANGED <<filters, beta>>
          ELSE Constructed(histogramSparsity_init(mus, weight), Zero, weight, mus)

NewAzimuthalFilter ==
    /\ Fresh
    /\ \E p \in Ps, weight \in Weights :
          Constructed(azimuthalFilter_init(Num(2), p, weight), p, weight, <<>>)

(***************************************************************************)
(* The caller invokes a method of the filter on a volume it owns           *)
(***************************************************************************)
\* ReadOnlyCall when the result array is the argument itself (D = f in place
\* of D = copyData(f), followed by D[:] = 0.0)
ReadOnlyCall_aliased(f, d) == [f |-> VConst(f, Zero), d |-> d]

\* the caller's f and d when cost, gradient or quadForm returns or raises: the
\* in-place assignments of these methods go to arrays the method made itself,
\* by copyData (lines 259, 270, 279, 344, 351, 354, 366, 405, 411, 416, 423,
\* 426, 483) or as the value of an expression such as f - self.f_0; f and d
\* are only read
ReadOnlyCall(f, d) == [f |-> f, d |-> d]

Cost ==
    /\ Idle /\ flt.kind # "none" /\ InRange(flt)
    /\ \E f \in Vols :
        call' = [NoCall EXCEPT !.op = "cost", !.on = "filter", !.fin = f,
                               !.ret = cost(flt, f), !.f = ReadOnlyCall(f, None).f]
    /\ UNCHANGED <<filters, beta, flt, ctor>>

Gradient ==
    /\ Idle /\ flt.kind # "none" /\ InRange(flt)
    /\ \E f \in Vols :
        call' = [NoCall EXCEPT !.op = "gradient", !.on = "filter", !.fin = f,
                               !.ret = gradient(flt, f), !.f = ReadOnlyCall(f, None).f]
    /\ UNCHANGED <<filters, beta, flt, ctor>>

QuadForm ==
    /\ Idle /\ flt.kind # "none" /\ InRangeQuadForm(flt)
    /\ \E f \in Vols, d \in Dirs :
        call' = [NoCall EXCEPT !.op = "quadForm", !.on = "filter", !.fin = f, !.d = d,
                               !.ret = quadForm(flt, f, d),
                               !.f = ReadOnlyCall(f, d).f, !.dout = ReadOnlyCall(f, d).d]
    /\ UNCHANGED <<filters, beta, flt, ctor>>

Apply ==
    /\ Idle /\ flt.kind # "none" /\ InRange(flt)
    /\ \E f \in Vols :
        call' = Ap1(LAMBDA r : [NoCall EXCEPT !.op = "apply", !.on = "filter", !.fin = f,
                                              !.ret = r.ret, !.f = r.f],
                    apply(flt, f))
    /\ UNCHANGED <<filters, beta, flt, ctor>>

\* the caller takes the result of the call; the next call can be made
Return ==
    /\ ~Idle
    /\ call' = NoCall
    /\ UNCHANGED <<filters, beta, flt, ctor>>

InitFilter ==
    /\ filters = <<>>
    /\ beta = One
    /\ flt = NoFilter
    /\ ctor = NoCtor
    /\ call = NoCall

NextFilter ==
    \/ NewDenoisingFilter
    \/ NewBlurFilter
    \/ NewBilateralFilter
    \/ NewMedianFilter
    \/ NewTV
    \/ NewLpNorm
    \/ NewHistogramSparsity
    \/ NewAzimuthalFilter
    \/ Cost
    \/ Gradient
    \/ QuadForm
    \/ Apply
    \/ Return

SpecFilter == InitFilter /\ [][NextFilter]_vars

(***************************************************************************)
(* The caller builds a filterSequence and invokes it                       *)
(***************************************************************************)
FsAppend ==
    /\ Idle /\ Len(filters) < MaxFilters
    /\ \E newFilter \in SeqFilters : filters' = Append(filters, newFilter)
    /\ call' = [NoCall EXCEPT !.op = "append", !.on = "sequence"]
    /\ UNCHANGED <<beta, flt, ctor>>

FsClear ==
    /\ Idle
    /\ filters' = <<>>
    /\ call' = [NoCall EXCEPT !.op = "clear", !.on = "sequence"]
    /\ UNCHANGED <<beta, flt, ctor>>

FsCost ==
    /\ Idle
    /\ \E f \in SeqVols :
        call' = Ap1(LAMBDA r : [NoCall EXCEPT !.op = "cost", !.on = "sequence", !.fin = f,
                                              !.ret = r.ret, !.f = ReadOnlyCall(f, None).f,
                                              !.log = r.log],
                    filterSequence_cost(filters, beta, f))
    /\ UNCHANGED <<filters, beta, flt, ctor>>

FsGradient ==
    /\ Idle
    /\ \E f \in SeqVols :
        call' = Ap1(LAMBDA r : [NoCall EXCEPT !.op = "gradient", !.on = "sequence",
                                              !.fin = f, !.ret = r.ret,
                                              !.f = ReadOnlyCall(f, None).f,
                                              !.log = r.log],
                    filterSequence_gradient(filters, beta, f))
    /\ UNCHANGED <<filters, beta, flt, ctor>>

FsQuadForm ==
    /\ Idle
    /\ \E f \in SeqVols, d \in Dirs :
        call' = Ap1(LAMBDA r : [NoCall EXCEPT !.op = "quadForm", !.on = "sequence",
                                              !.fin = f, !.d = d, !.ret = r.ret,
                                              !.f = ReadOnlyCall(f, d).f,
                                              !.dout = ReadOnlyCall(f, d).d,
                                              !.log = r.log],
                    filterSequence_quadForm(filters, beta, f, d))
    /\ UNCHANGED <<filters, beta, flt, ctor>>

FsApply ==
    /\ Idle /\ ChainInRange(filters)
    /\ \E f \in SeqVols :
        call' = Ap1(LAMBDA r : [NoCall EXCEPT !.op = "apply", !.on = "sequence", !.fin = f,
                                              !.ret = r.ret, !.f = r.f, !.log = r.log],
                    filterSequence_apply(filters, beta, f))
    /\ UNCHANGED <<filters, beta, flt, ctor>>

\* filterSequence(beta): an empty list and the given strength
Init ==
    /\ filters = <<>>
    /\ beta \in Betas
    /\ flt = NoFilter
    /\ ctor = NoCtor
    /\ call = NoCall

Next ==
    \/ FsAppend
    \/ FsClear
    \/ FsCost
    \/ FsGradient
    \/ FsQuadForm
    \/ FsApply
    \/ Return

Spec == Init /\ [][Next]_vars

\* a caller that works either with a single filter, and then builds no
\* sequence (beta is left at the default of line 444), or with a
\* filterSequence, and then calls no filter on its own
InitBoth == InitFilter \/ Init

NextBoth ==
    \/ beta = One /\ filters = <<>> /\ NewDenoisingFilter
    \/ beta = One /\ filters = <<>> /\ NewBlurFilter
    \/ beta = One /\ filters = <<>> /\ NewBilateralFilter
    \/ beta = One /\ filters = <<>> /\ NewMedianFilter
    \/ beta = One /\ filters = <<>> /\ NewTV
    \/ beta = One /\ filters = <<>> /\ NewLpNorm
    \/ beta = One /\ filters = <<>> /\ NewHistogramSparsity
    \/ beta = One /\ filters = <<>> /\ NewAzimuthalFilter
    \/ beta = One /\ filters = <<>> /\ Cost
    \/ beta = One /\ filters = <<>> /\ Gradient
    \/ beta = One /\ filters = <<>> /\ QuadForm
    \/ beta = One /\ filters = <<>> /\ Apply
    \/ beta = One /\ filters = <<>> /\ Return
    \/ flt.kind = "none" /\ ctor = NoCtor /\ FsAppend
    \/ flt.kind = "none" /\ ctor = NoCtor /\ FsClear
    \/ flt.kind = "none" /\ ctor = NoCtor /\ FsCost
    \/ flt.kind = "none" /\ ctor = NoCtor /\ FsGradient
    \/ flt.kind = "none" /\ ctor = NoCtor /\ FsQuadForm
    \/ flt.kind = "none" /\ ctor = NoCtor /\ FsApply
    \/ flt.kind = "none" /\ ctor = NoCtor /\ Return

SpecBoth == InitBoth /\ [][NextBoth]_vars

(***************************************************************************)
(* Properties                                                              *)
(***************************************************************************)
SeqCall(ops) == call.on = "sequence" /\ call.op \in ops
FilterCall(ops) == call.on = "filter" /\ call.op \in ops
ZeroVol == [i \in Idx |-> Zero]
AllFinite(r) ==
    /\ r.kind = "val" => IsFinite(r.val)
    /\ r.kind = "vol" => \A i \in DOMAIN r.vol : IsFinite(r.vol[i])

\* the members of a set of indices, in ascending order
Ascending(S) ==
    [k \in 1..Cardinality(S) |-> CHOOSE n \in S : Cardinality({m \in S : m < n}) = k - 1]

Participants(fs) == {n \in DOMAIN fs : fs[n].isDifferentiable /\ FGt(fs[n].weight, Zero)}

\* what filters[n] answers to the operation of the recorded call
PerFilter(n) ==
    CASE call.op = "cost" -> cost(filters[n], call.fin)
      [] call.op = "gradient" -> gradient(filters[n], call.fin)
      [] call.op = "quadForm" -> quadForm(filters[n], call.fin, call.d)

SumOfValues ==
    FSumTo([n \in DOMAIN filters |->
               IF n \in Participants(filters) THEN PerFilter(n).val ELSE Zero],
           Len(filters))

SumOfVolumes ==
    [i \in Idx |->
        FSumTo([n \in DOMAIN filters |->
                   IF n \in Participants(filters) THEN PerFilter(n).vol[i] ELSE Zero],
               Len(filters))]

SequenceSums ==
    IF FGt(beta, Zero)
    THEN /\ call.log = Ascending(Participants(filters))
         /\ \A n \in Participants(filters) : PerFilter(n).kind \in {"val", "vol"}
         /\ call.ret = IF call.op = "gradient"
                       THEN RVol([i \in Idx |-> FMul(beta, SumOfVolumes[i])])
                       ELSE RVal(FMul(beta, SumOfValues))
    ELSE /\ call.log = <<>>
         /\ call.ret = IF call.op = "gradient" THEN RVol(ZeroVol) ELSE RVal(Zero)

AzimuthalCostInvolved ==
    /\ call.op = "cost" /\ FGt(beta, Zero)
    /\ \E n \in Participants(filters) : filters[n].kind = "azimuthalFilter"

\* C1: on a nonempty list, cost, gradient and quadForm of a filterSequence
\* return beta times the sum of the per-filter results over exactly the filters
\* with isDifferentiable and weight > 0, evaluating no other filter, when
\* beta > 0; and return 0 (an all-zero volume for gradient) without evaluating
\* any filter when beta <= 0.
C1_SequenceSumsParticipants ==
    (SeqCall({"cost", "gradient", "quadForm"}) /\ filters # <<>>) => SequenceSums

\* the same sums wherever no participating azimuthalFilter is asked for its cost
SequenceSumsWhereCostReturns ==
    (SeqCall({"cost", "gradient", "quadForm"}) /\ filters # <<>>
        /\ ~AzimuthalCostInvolved) => SequenceSums

\* the apply operations of a list composed in list order, first filter first
RECURSIVE ComposeApply(_, _)
ComposeApply(fs, f) ==
    IF fs = <<>> THEN f ELSE ComposeApply(Tail(fs), apply(Head(fs), f).f)

NoApplyOverride == {"histogramSparsity", "azimuthalFilter"}

\* f when denom <= 1e-16, else f - (sum(d^2)/denom) * d
DescentStep(f, d, denom) ==
    IF FLeq(denom, Flt(1, 1, 1)) THEN f
    ELSE Ap1(LAMBDA stepSize : [i \in Idx |-> FSub(f[i], FMul(stepSize, d[i]))],
             FDiv(leapct_sum([i \in Idx |-> FMul(d[i], d[i])]), denom))

\* C3: for a differentiable filter without an apply of its own, apply(f) takes
\* d = gradient(f) and denom = quadForm(f, d); it returns f with every element
\* unchanged when denom <= 1e-16 and f - (sum(d^2)/denom) * d otherwise: one
\* gradient-descent step.
C3_OneGradientStep ==
    (FilterCall({"apply"}) /\ flt.kind \in NoApplyOverride) =>
        /\ call.ret = RVol(call.f)
        /\ call.f = Ap1(LAMBDA d : DescentStep(call.fin, d, quadForm(flt, call.fin, d).val),
                        gradient(flt, call.fin).vol)

\* C3 witness: the step was taken and it moved the volume
C3_StepTaken ==
    /\ FilterCall({"apply"}) /\ flt.kind \in NoApplyOverride
    /\ call.ret.kind = "vol"
    /\ call.f # call.fin

\* C4: cost, gradient or quadForm invoked on a filter that is not
\* differentiable (BlurFilter, BilateralFilter, MedianFilter, the bare base
\* filter) ends in an error; it never returns normally.
C4_NonDifferentiableFailsFast ==
    (FilterCall({"cost", "gradient", "quadForm"}) /\ ~flt.isDifferentiable) =>
        call.ret.kind = "err"

\* x of the recorded call: the volume, centered on the prior when there is one
LpX == IF flt.f_0 # None THEN [i \in Idx |-> FSub(call.fin[i], flt.f_0[i])] ELSE call.fin

LpCostFormula == FMul(flt.weight, leapct_sum([i \in Idx |-> FPowAbs(FAbs(LpX[i]), flt.p)]))

LpGradientFormula ==
    [i \in Idx |-> FMul(FMul(FMul(flt.weight, flt.p), FSign(LpX[i])),
                        FPowAbs(FAbs(LpX[i]), FSub(flt.p, One)))]

\* weight * p * sum(|x|^(p-2) * d * d), every position taken as it is
LpQuadFormFormula ==
    FMul(FMul(flt.weight, flt.p),
         leapct_sum([i \in Idx |->
             FMul(FMul(FPowAbs(FAbs(LpX[i]), FSub(flt.p, Num(2))), call.d[i]), call.d[i])]))

\* the same sum over the positions where x is not zero
LpQuadFormNonzero ==
    FMul(FMul(flt.weight, flt.p),
         leapct_sum([i \in Idx |->
             IF LpX[i] = Zero THEN Zero
             ELSE FMul(FMul(FPowAbs(FAbs(LpX[i]), FSub(flt.p, Num(2))), call.d[i]),
                       call.d[i])]))

RefF == <<One, Num(-1), Num(2)>>
RefD == <<One, One, One>>

\* f = [1,-1,2], p = 2, weight = 0.5, no prior: cost 3, gradient [1,-1,2],
\* quadForm(f, [1,1,1]) = 3, step size of the generic apply 1
LpReferenceCase ==
    (flt = LpNorm_init(Num(2), Half, None) /\ call.fin = RefF) =>
        /\ call.op = "cost" => call.ret = RVal(Num(3))
        /\ call.op = "gradient" => call.ret = RVol(RefF)
        /\ (call.op = "quadForm" /\ call.d = RefD) => call.ret = RVal(Num(3))
        /\ call.op = "apply" =>
              /\ FDiv(leapct_sum(VMul(RefF, RefF)), quadForm(flt, RefF, RefF).val) = One
              /\ call.ret = RVol([i \in Idx |-> FSub(RefF[i], FMul(One, RefF[i]))])

\* C5 as amended: for LpNorm with x = f - f_0 (x = f without prior),
\* cost = weight * sum(|x|^p), gradient = weight * p * sign(x) * |x|^(p-1)
\* elementwise, and quadForm = weight * p * sum of |x|^(p-2) * d * d over the
\* positions where x is not zero; the reference case gives 3, [1,-1,2], 3 and
\* step size 1.
C5_LpNormFormulasZeroGuarded ==
    (call.on = "filter" /\ flt.kind = "LpNorm") =>
        /\ call.op = "cost" => call.ret = RVal(LpCostFormula)
        /\ call.op = "gradient" => call.ret = RVol(LpGradientFormula)
        /\ call.op = "quadForm" => call.ret = RVal(LpQuadFormNonzero)
        /\ LpReferenceCase

\* C5 witness: quadForm of an LpNorm with a prior, p = 2, at a volume that
\* meets the prior at a position where d is not zero
C5_QuadFormAtZeroPosition ==
    /\ FilterCall({"quadForm"}) /\ flt.kind = "LpNorm"
    /\ flt.f_0 # None /\ flt.p = Num(2) /\ flt.weight = Half
    /\ \E i \in Idx : LpX[i] = Zero /\ call.d[i] # Zero
    /\ \E i \in Idx : LpX[i] # Zero /\ call.d[i] # Zero

\* the reference case of C5 has been evaluated
LpReferenceReached ==
    /\ FilterCall({"quadForm"}) /\ flt = LpNorm_init(Num(2), Half, None)
    /\ call.fin = RefF /\ call.d = RefD
    /\ call.ret = RVal(Num(3))

\* C5 as stated: for LpNorm, cost = weight * sum(|x|^p), gradient =
\* weight * p * sign(x) * |x|^(p-1) and quadForm = weight * p *
\* sum(|x|^(p-2) * d * d) over every position.
C5_LpNormFormulasAsStated ==
    (call.on = "filter" /\ flt.kind = "LpNorm") =>
        /\ call.op = "cost" => call.ret = RVal(LpCostFormula)
        /\ call.op = "gradient" => call.ret = RVol(LpGradientFormula)
        /\ call.op = "quadForm" => call.ret = RVal(LpQuadFormFormula)
        /\ LpReferenceCase

\* the generic step of the recorded apply is not skipped by the guard on denom
LpStepNotSkipped ==
    LET x == LpX IN FGt(quadForm(flt, x, gradient(flt, x).vol).val, Flt(1, 1, 1))

\* C6: for LpNorm with p = 2 and weight > 0, one apply returns a volume where
\* LpNorm.gradient is zero at every position: f_0 when a prior is set, the
\* zero volume when none is.  Stated for the calls whose step the guard
\* denom <= 1e-16 does not skip.
C6_QuadraticStepReachesMinimum ==
    (FilterCall({"apply"}) /\ flt.kind = "LpNorm" /\ flt.p = Num(2)
        /\ FGt(flt.weight, Zero) /\ LpStepNotSkipped) =>
        /\ call.ret = RVol(IF flt.f_0 # None THEN flt.f_0 ELSE ZeroVol)
        /\ gradient(flt, call.f).vol = ZeroVol

\* the same without a prior, where the volume is not centered
QuadraticStepWithoutPrior ==
    (FilterCall({"apply"}) /\ flt.kind = "LpNorm" /\ flt.p = Num(2)
        /\ FGt(flt.weight, Zero) /\ LpStepNotSkipped /\ flt.f_0 = None) =>
        /\ call.ret = RVol(ZeroVol)
        /\ gradient(flt, call.f).vol = ZeroVol

\* C7: TV.apply returns diffuse(f - f_0) + f_0 when a prior is set, with the
\* engine's one-iteration diffusion with (delta, p), and diffuse(f) when none is.
C7_TVApplyDiffusesCentered ==
    (FilterCall({"apply"}) /\ flt.kind = "TV") =>
        call.ret = RVol(IF flt.f_0 # None
                        THEN VAdd(leapct_diffuse(VSub(call.fin, flt.f_0), flt.delta, 1,
                                                 flt.p),
                                  flt.f_0)
                        ELSE leapct_diffuse(call.fin, flt.delta, 1, flt.p))

\* C8: in LpNorm and azimuthalFilter, for every p of the domain and every
\* volume with exact zeros, gradient and quadForm never raise a zero base to a
\* negative exponent: no NaN and no inf appears in any result.
C8_NoNaNNoInf ==
    (FilterCall({"gradient", "quadForm"}) /\ flt.kind \in {"LpNorm", "azimuthalFilter"}
        /\ FLeq(Zero, flt.weight) /\ FLeq(Zero, flt.p)) =>
        AllFinite(call.ret)

\* C9: the stored targets of a histogramSparsity are strictly ascending,
\* contain 0.0 and otherwise exactly the distinct values given, e.g. [1, 2]
\* gives [0, 1, 2]; cost, gradient, quadForm and apply never change them.
C9_TargetsSortedWithZero ==
    flt.kind = "histogramSparsity" =>
        /\ \A i \in 1..(Len(flt.mus) - 1) : FLt(flt.mus[i], flt.mus[i + 1])
        /\ \E i \in DOMAIN flt.mus : flt.mus[i] = Zero
        /\ {flt.mus[i] : i \in DOMAIN flt.mus} = {ctor.mus[i] : i \in DOMAIN ctor.mus} \cup {Zero}
        /\ ctor.mus = <<One, Num(2)>> => flt.mus = <<Zero, One, Num(2)>>

\* C9 witness: built from [2, 2], the targets are [0, 2] after an apply
C9_TargetsAfterApply ==
    /\ FilterCall({"apply"}) /\ flt.kind = "histogramSparsity"
    /\ ctor.mus = <<Num(2), Num(2)>>
    /\ flt.mus = <<Zero, Num(2)>>
    /\ call.f # call.fin

\* C10: after construction weight >= 0 for every filter, p >= 0 for LpNorm and
\* azimuthalFilter and p >= 0.01 for TV, a requested value outside the domain
\* being replaced by the nearest bound.
C10_ParametersInDomain ==
    flt.kind # "none" =>
        /\ flt.weight = FMax(Zero, ctor.weight)
        /\ flt.kind \in {"LpNorm", "azimuthalFilter"} => flt.p = FMax(Zero, ctor.p)
        /\ flt.kind = "TV" => flt.p = FMax(Flt(1, 100, 0), ctor.p)

\* the effective targets of the constructor call: the distinct values given
\* and 0.0; the least distance between two of them is the least gap between
\* neighbours of the sorted set
EffectiveTargets == SeqSet(ctor.mus) \cup {Zero}
MinGap == FLeast({FAbs(FSub(a, b)) : a, b \in EffectiveTargets} \ {Zero})

\* C11: for every nonempty list of target values the construction of a
\* histogramSparsity completes, with GemanParam = 0.25 * g^2 for the least gap
\* g of the effective targets when there are two or more of them and
\* GemanParam = 1e-5 when there is one; GemanParam > 0.
C11_ConstructionSetsGemanParam ==
    (FilterCall({"__init__"}) /\ ctor.mus # <<>>) =>
        /\ call.ret.kind # "err"
        /\ flt.kind = "histogramSparsity"
        /\ flt.GemanParam = IF Cardinality(EffectiveTargets) >= 2
                            THEN FMul(Quarter, FMul(MinGap, MinGap))
                            ELSE GemanDefault
        /\ FGt(flt.GemanParam, Zero)

\* where the constructor returns, GemanParam is as C11 states
GemanParamWhereConstructed ==
    (FilterCall({"__init__"}) /\ ctor.mus # <<>> /\ call.ret.kind # "err") =>
        /\ flt.GemanParam = IF Cardinality(EffectiveTargets) >= 2
                            THEN FMul(Quarter, FMul(MinGap, MinGap))
                            ELSE GemanDefault
        /\ FGt(flt.GemanParam, Zero)

\* the distance from a voxel value to the nearest target of the filter
NearestTarget(v) == FLeast({FAbs(FSub(v, flt.mus[l])) : l \in DOMAIN flt.mus})

\* C12: quadForm(f, d) of a histogramSparsity is weight times the sum over the
\* voxels of Geman1_over_x(m(v)) * d(v)^2, m(v) being the distance from f(v) to
\* its nearest target; a voxel whose value is a target has m(v) = 0.
C12_QuadFormWeightsByNearestTarget ==
    (FilterCall({"quadForm"}) /\ flt.kind = "histogramSparsity") =>
        call.ret = RVal(FMul(flt.weight,
                             leapct_sum([i \in Idx |->
                                 FMul(Geman1_over_x(flt, NearestTarget(call.fin[i])),
                                      FMul(call.d[i], call.d[i]))])))

\* the leave-one-out term of target l_1 at a voxel of value v, over the first
\* n targets: G1(v - mu_l1) times the product of G0(v - mu_l2), l2 # l1
RECURSIVE LeaveOneOut(_, _, _)
LeaveOneOut(v, l_1, n) ==
    IF n = 0 THEN One
    ELSE FMul(LeaveOneOut(v, l_1, n - 1),
              IF n = l_1 THEN Geman1(flt, FSub(v, flt.mus[n]))
              ELSE Geman0(flt, FSub(v, flt.mus[n])))

\* the sum of the leave-one-out terms of the first n targets
RECURSIVE LeaveOneOutSum(_, _)
LeaveOneOutSum(v, n) ==
    IF n = 0 THEN Zero
    ELSE FAdd(LeaveOneOutSum(v, n - 1), LeaveOneOut(v, n, Len(flt.mus)))

\* C13: gradient(f) of a histogramSparsity is the gradient of its cost: weight
\* times the sum over the targets l1 of G1(f - mu_l1) * prod_{l2 # l1}
\* G0(f - mu_l2), every term scaled by weight once.
C13_GradientScaledByWeightOnce ==
    (FilterCall({"gradient"}) /\ flt.kind = "histogramSparsity") =>
        call.ret = RVol([i \in Idx |->
                            FMul(flt.weight, LeaveOneOutSum(call.fin[i], Len(flt.mus)))])

\* C14: cost(f) of an azimuthalFilter completes and returns
\* weight * sum(|H(f)|^p), H(f) = f - AzimuthalBlur(f, FWHM), with the p of
\* the filter.
C14_AzimuthalCostReturnsValue ==
    (FilterCall({"cost"}) /\ flt.kind = "azimuthalFilter") =>
        call.ret = RVal(FMul(flt.weight,
                             leapct_sum(VPowAbs(leapct_abs(azimuthal_highPass(flt, call.fin)),
                                                flt.p))))

C16_EmptySequence ==
    filters = <<>> =>
        /\ SeqCall({"cost", "quadForm"}) => call.ret = RVal(Zero)
        /\ SeqCall({"apply"}) => call.ret = RVol(call.fin) /\ call.f = call.fin
        /\ SeqCall({"gradient"}) => call.ret = RErr

\* C16 witness: gradient called on the empty list with beta <= 0 raised
C16_GradientOnEmptyRaised ==
    /\ filters = <<>> /\ FLeq(beta, Zero)
    /\ SeqCall({"gradient"}) /\ call.ret.kind = "err"
    /\ call.f = call.fin

=============================================================================
